---- MODULE Spec2Model ----
(***************************************************************************)
(* Process-lifecycle supervisor of packages/client/src-tauri/src/lib.rs:   *)
(* the Registry (Mutex<ServerState>), start_promptliano_server with its    *)
(* background output monitor, and stop_promptliano_server.                 *)
(* Commands are async and run on a multi-threaded runtime, so several      *)
(* invocations interleave at every point where the mutex is not held.      *)
(***************************************************************************)
EXTENDS Integers, Sequences, FiniteSets, TLC

\* ---------------------------------------------------------------- bounds
NumThreads == 2      \* concurrent command invocations
MaxCalls == 3        \* command invocations in one run
MaxEvents == 2       \* steps the child processes take in one run (write, exit, close)

Threads == 1..NumThreads
\* every spawn belongs to one start call
Children == 1..MaxCalls

\* Option::None for the handle slot and the thread-local handle
None == 0

\* ------------------------------------------------------ return values
MsgAlreadyRunning == "Promptliano server is already running"
MsgStarting == "Promptliano server starting on port 3147"
MsgStopped == "Promptliano server stopped"
MsgNotRunning == "Promptliano server was not running"
ErrSpawn == "Err(spawn)"
ErrKill == "Err(kill)"

\* ------------------------------------------------------ notifications
TagReady == "promptliano-server-ready"
TagTerminated == "promptliano-server-terminated"

\* --------------------------------------------------- bytes and text
\* A byte that is not valid UTF-8, and the character from_utf8_lossy puts
\* in its place.
BadByte == "\\xFF"
Replacement == "U+FFFD"

from_utf8_lossy(line) ==
    [i \in DOMAIN line |-> IF line[i] = BadByte THEN Replacement ELSE line[i]]

\* str::contains
contains(hay, needle) ==
    \E i \in 0..(Len(hay) - Len(needle)) :
        SubSeq(hay, i + 1, i + Len(needle)) = needle

PatServerRunning ==
    <<"S","e","r","v","e","r"," ","r","u","n","n","i","n","g">>
PatListeningOn ==
    <<"L","i","s","t","e","n","i","n","g"," ","o","n">>
PatBanner ==
    <<"[","S","e","r","v","e","r","]"," ">> \o PatServerRunning \o <<" ","a","t">>

IsReadyLine(line_str) ==
    \/ contains(line_str, PatServerRunning)
    \/ contains(line_str, PatListeningOn)
    \/ contains(line_str, PatBanner)

\* the condition of the if on the stdout arm
ShouldSignalLatchless(server_ready_, line_str) == IsReadyLine(line_str)
ShouldSignal(server_ready_, line_str) ==
    ~server_ready_ /\ IsReadyLine(line_str)

\* Output lines a child writes (as bytes)
LineListening == PatListeningOn \o <<" ","3","1","4","7">>
LineRunning == <<"o","k",":"," ">> \o PatServerRunning
LineBanner == PatBanner \o <<" ","x">>
LineBadByte == <<BadByte>> \o PatListeningOn
LineLower == <<"s","e","r","v","e","r"," ","r","u","n","n","i","n","g">>
LineBroken == <<"L","i","s","t","e","n","i","n","g",BadByte,"o","n">>

\* the lines that carry a readiness substring, and those that do not
ReadyLines == {LineListening, LineRunning, LineBanner, LineBadByte}
OtherLines == {LineLower, LineBroken}
StdoutLines == ReadyLines \cup OtherLines
StderrLines == {LineListening}

\* exit codes of payload.code: Option<i32>
NoCode == -1

\* how the endpoint http://localhost:3147/api/health treats one request:
\* no connection, a response with a status, or a connection that is accepted
\* and never answered
Statuses == {200, 204, 301, 404, 500}
Target(kind, status) == [kind |-> kind, status |-> status]
NoProbe == Target("none", 0)
Targets ==
    {Target("refused", 0), Target("hung", 0)}
    \cup {Target("status", st) : st \in Statuses}

\* check_server_status returns Ok(bool)
OkBool(b) == IF b THEN "Ok(true)" ELSE "Ok(false)"

Note(tag, payload, ok) == [tag |-> tag, payload |-> payload, ok |-> ok]
Call(op, res, c) == [op |-> op, res |-> res, c |-> c]

VARIABLES
    child,          \* ServerState.child: None or the handle of a child
    lock,           \* the Mutex: 0 when free, else the thread holding the guard
    pc,             \* where each invocation stands
    held,           \* the handle a thread holds locally (spawned or taken)
    probe,          \* probe[t]: how the endpoint treats the request of t
    nspawn,         \* children spawned so far
    alive,          \* alive[c]: the process c has not exited
    exited,         \* exited[c]: <<code>> once c has exited with that code
    kills,          \* kills[c]: kill requests issued on handle c
    rx,             \* rx[c]: the Terminated payloads waiting in the channel of c
    closed,         \* closed[c]: the senders of the channel are gone
    nev,            \* steps the child processes have taken
    mon,            \* mon[c]: "none", "running", "ended", "panicked"
    server_ready,   \* server_ready[c]: the latch of the monitor of c
    notes,          \* notes[c]: the emit calls of the monitor of c, in order
    matched,        \* matched[c]: ready lines the monitor of c has consumed
    errlog,         \* a stderr line has been written to the error-level log
    hist,           \* completed calls, in order of completion
    overlap         \* two invocations were in flight at the same time

vars == <<child, lock, pc, held, probe, nspawn, alive, exited, kills, rx, closed,
          nev, mon, server_ready, notes, matched, errlog, hist,
          overlap>>

procVars == <<alive, exited, rx, closed, nev>>
monVars == <<mon, server_ready, notes, matched, errlog>>

Init ==
    /\ child = None
    /\ lock = 0
    /\ pc = [t \in Threads |-> "idle"]
    /\ held = [t \in Threads |-> None]
    /\ probe = [t \in Threads |-> NoProbe]
    /\ nspawn = 0
    /\ alive = [c \in Children |-> FALSE]
    /\ exited = [c \in Children |-> <<>>]
    /\ kills = [c \in Children |-> 0]
    /\ rx = [c \in Children |-> <<>>]
    /\ closed = [c \in Children |-> FALSE]
    /\ nev = 0
    /\ mon = [c \in Children |-> "none"]
    /\ server_ready = [c \in Children |-> FALSE]
    /\ notes = [c \in Children |-> <<>>]
    /\ matched = [c \in Children |-> 0]
    /\ errlog = FALSE
    /\ hist = <<>>
    /\ overlap = FALSE

\* commands invoked so far
Calls == Len(hist) + Cardinality({t \in Threads : pc[t] # "idle"})

\* a command is invoked while another one is in flight
Overlaps(t) == overlap \/ \E u \in Threads \ {t} : pc[u] # "idle"

Return(t, op, res, c) ==
    /\ hist' = Append(hist, Call(op, res, c))
    /\ pc' = [pc EXCEPT ![t] = "idle"]
    /\ held' = [held EXCEPT ![t] = None]
    /\ probe' = [probe EXCEPT ![t] = NoProbe]

\* ------------------------------------------- start_promptliano_server
\* a command is invoked: it takes the step that begins with state.lock()
Invoke(t) ==
    /\ pc[t] = "idle"
    /\ Calls < MaxCalls
    /\ lock = 0
    /\ overlap' = Overlaps(t)

\* state_guard.child.is_some()
StartIsSomeNever(h) == FALSE
StartIsSome(h) == h # None

\* the guard of the first block once the block is left: dropped
StartCheckGuard(t) == 0

\* the first block: lock, check, unlock at the closing brace
StartCheck(t) ==
    /\ Invoke(t)
    /\ lock' = StartCheckGuard(t)
    /\ IF StartIsSome(child)
       THEN Return(t, "start", MsgAlreadyRunning, None)
       ELSE /\ pc' = [pc EXCEPT ![t] = "start_spawn"]
            /\ UNCHANGED <<held, probe, hist>>
    /\ UNCHANGED <<child, nspawn, kills>>
    /\ UNCHANGED procVars
    /\ UNCHANGED monVars

\* what start returns when sidecar() or spawn() fails: map_err(..)? returns
\* Err(e.to_string())
SpawnErrSwallowed == MsgStarting
SpawnErrResult == ErrSpawn

\* shell.sidecar(..).args(..).spawn(): a new child and its channel, or an error
StartSpawn(t) ==
    /\ pc[t] = "start_spawn"
    /\ \/ /\ nspawn' = nspawn + 1
          /\ alive' = [alive EXCEPT ![nspawn + 1] = TRUE]
          /\ held' = [held EXCEPT ![t] = nspawn + 1]
          /\ UNCHANGED probe
          /\ pc' = [pc EXCEPT ![t] = "start_store"]
          /\ UNCHANGED hist
       \/ /\ Return(t, "start", SpawnErrResult, None)
          /\ UNCHANGED <<nspawn, alive>>
    /\ UNCHANGED <<child, lock, kills, overlap, exited, rx, closed, nev>>
    /\ UNCHANGED monVars

\* the second block: lock, state_guard.child = Some(child), unlock
StartStore(t) ==
    /\ pc[t] = "start_store"
    /\ lock = 0
    /\ child' = held[t]
    /\ pc' = [pc EXCEPT ![t] = "start_monitor"]
    /\ UNCHANGED <<lock, held, probe, nspawn, kills, hist, overlap>>
    /\ UNCHANGED procVars
    /\ UNCHANGED monVars

\* tauri::async_runtime::spawn of the monitor task (server_ready = false),
\* then Ok("... starting ...")
NoTask == "none"
SpawnedTask == "running"
\* let mut server_ready = false: a local of the new task
InheritedLatch(c) == c > 1 /\ server_ready[c - 1]
InitialLatch(c) == FALSE
StartMonitor(t) ==
    /\ pc[t] = "start_monitor"
    /\ held[t] # None
    /\ mon' = [mon EXCEPT ![held[t]] = SpawnedTask]
    /\ server_ready' = [server_ready EXCEPT ![held[t]] = InitialLatch(held[t])]
    /\ Return(t, "start", MsgStarting, held[t])
    /\ UNCHANGED <<child, lock, nspawn, kills, overlap, notes, matched, errlog>>
    /\ UNCHANGED procVars

\* -------------------------------------------- stop_promptliano_server
\* Option::take: what is left in the slot
TakeLeaves(h) == h
Take(h) == None

\* the else arm: Ok("... was not running")
NotRunningIsErr == "Err(not running)"
NotRunningResult == MsgNotRunning

\* the guard while child.kill() runs: it lives to the end of the function
StopKillGuard(t) == t

\* state.lock().unwrap(); if let Some(child) = state_guard.child.take()
StopTake(t) ==
    /\ Invoke(t)
    /\ child' = Take(child)
    /\ IF child # None
       THEN /\ held' = [held EXCEPT ![t] = child]
            /\ UNCHANGED probe
            /\ pc' = [pc EXCEPT ![t] = "stop_kill"]
            /\ lock' = StopKillGuard(t)
            /\ UNCHANGED hist
       ELSE /\ Return(t, "stop", NotRunningResult, None)
            /\ lock' = 0
    /\ UNCHANGED <<nspawn, kills>>
    /\ UNCHANGED procVars
    /\ UNCHANGED monVars

\* the slot when child.kill() fails: the ? returns, the handle taken out of
\* the slot is dropped with the function's locals
AfterKillErrRestores(slot, h) == h
AfterKillErr(slot, h) == slot

\* child.kill().map_err(..)?  then Ok("... stopped"); the guard is dropped
\* when the function returns
StopKill(t) ==
    /\ pc[t] = "stop_kill"
    /\ kills' = [kills EXCEPT ![held[t]] = @ + 1]
    /\ \E ok \in BOOLEAN :
          /\ Return(t, "stop", IF ok THEN MsgStopped ELSE ErrKill, held[t])
          /\ child' = IF ok THEN child ELSE AfterKillErr(child, held[t])
    /\ lock' = 0
    /\ UNCHANGED <<nspawn, overlap>>
    /\ UNCHANGED procVars
    /\ UNCHANGED monVars

\* ------------------------------------------------- the child process
Spawned(c) == c <= nspawn

\* one more step of a child process
Step ==
    /\ nev < MaxEvents
    /\ nev' = nev + 1

\* the receiver rx lives until the monitor task ends
Receiving(c) == mon[c] \in {"none", "running"}

\* payload.code: a child that a kill request has ended was ended by a signal
\* and reports no code; a child that exits by itself reports its exit code
ExitCode(c) ==
    IF \E i \in 1..Len(hist) : hist[i].res = MsgStopped /\ hist[i].c = c
    THEN NoCode
    ELSE 0

\* the process exits (by itself or killed): Terminated(payload) is sent into
\* the channel, where it waits for the monitor
ChildExit(c) ==
    /\ Spawned(c)
    /\ alive[c]
    /\ Step
    /\ alive' = [alive EXCEPT ![c] = FALSE]
    /\ exited' = [exited EXCEPT ![c] = <<ExitCode(c)>>]
    /\ rx' = [rx EXCEPT ![c] =
                IF Receiving(c) THEN Append(@, ExitCode(c)) ELSE @]
    /\ UNCHANGED <<child, lock, pc, held, probe, nspawn, kills, closed,
                   hist, overlap>>
    /\ UNCHANGED monVars

\* the process is gone and no Terminated is reported for it (waiting for
\* the process failed)
ChildGone(c) ==
    /\ Spawned(c)
    /\ alive[c]
    /\ Step
    /\ alive' = [alive EXCEPT ![c] = FALSE]
    /\ UNCHANGED <<child, lock, pc, held, probe, nspawn, kills, exited, rx, closed,
                   hist, overlap>>
    /\ UNCHANGED monVars

\* the senders are dropped: the stream closes
ChildClose(c) ==
    /\ Spawned(c)
    /\ ~alive[c]
    /\ ~closed[c]
    /\ Step
    /\ closed' = [closed EXCEPT ![c] = TRUE]
    /\ UNCHANGED <<child, lock, pc, held, probe, nspawn, alive, exited, kills, rx,
                   hist, overlap>>
    /\ UNCHANGED monVars

\* ------------------------------------------------- the monitor task
\* rx.recv() yields an output event: the child writes it and the monitor
\* takes it in one step (the channel only delays it, nothing else reads it)
RecvOutput(c) ==
    /\ mon[c] = "running"
    /\ ~closed[c]
    /\ Step

\* app_handle.emit(tag, payload).unwrap(): the call is made; when it
\* returns Err the unwrap panics and the task is gone
Emit(c, tag, payload, ok, after) ==
    /\ notes' = [notes EXCEPT ![c] = Append(@, Note(tag, payload, ok))]
    /\ mon' = [mon EXCEPT ![c] = IF ok THEN after ELSE "panicked"]

\* CommandEvent::Stdout(line)
MonitorStdout(c, line) ==
    /\ RecvOutput(c)
    /\ LET line_str == from_utf8_lossy(line)
       IN  /\ matched' = [matched EXCEPT ![c] =
                             IF line \in ReadyLines THEN @ + 1 ELSE @]
           /\ IF ShouldSignal(server_ready[c], line_str)
              THEN /\ server_ready' = [server_ready EXCEPT ![c] = TRUE]
                   /\ \E ok \in BOOLEAN : Emit(c, TagReady, NoCode, ok, "running")
              ELSE UNCHANGED <<server_ready, notes, mon>>
    /\ UNCHANGED errlog
    /\ UNCHANGED <<child, lock, pc, held, probe, nspawn, alive, exited, kills, rx,
                   closed,
                   hist, overlap>>

\* CommandEvent::Stderr(line): the line goes to the log, tagged as an error
MonitorStderrAsStdout(c, line) == MonitorStdout(c, line)
MonitorStderr(c, line) ==
    /\ RecvOutput(c)
    /\ UNCHANGED <<child, lock, pc, held, probe, nspawn, alive, exited, kills, rx,
                   closed,
                   hist, overlap>>
    /\ UNCHANGED <<mon, server_ready, notes, matched>>
    /\ errlog' = TRUE

\* the monitor after the Terminated arm: break
AfterTerminatedNoBreak == "running"
AfterTerminated == "ended"

\* CommandEvent::Terminated(payload)
MonitorTerminated(c) ==
    /\ mon[c] = "running"
    /\ rx[c] # <<>>
    /\ rx' = [rx EXCEPT ![c] = Tail(@)]
    /\ \E ok \in BOOLEAN :
          Emit(c, TagTerminated, Head(rx[c]), ok, AfterTerminated)
    /\ UNCHANGED <<child, lock, pc, held, probe, nspawn, alive, exited, kills,
                   closed, nev, hist, overlap, server_ready, matched, errlog>>

\* _ => {}
MonitorOther(c) ==
    /\ RecvOutput(c)
    /\ UNCHANGED <<child, lock, pc, held, probe, nspawn, alive, exited, kills, rx,
                   closed,
                   hist, overlap>>
    /\ UNCHANGED monVars

\* rx.recv() returns None: the while let loop ends
MonitorClosed(c) ==
    /\ mon[c] = "running"
    /\ rx[c] = <<>>
    /\ closed[c]
    /\ mon' = [mon EXCEPT ![c] = "ended"]
    /\ UNCHANGED <<child, lock, pc, held, probe, nspawn, kills, hist, overlap,
                   server_ready, notes, matched, errlog>>
    /\ UNCHANGED procVars

\* ------------------------------------------------ check_server_status
\* reqwest::get(..): the request is sent; the call awaits the response
CheckSend(t, target) ==
    /\ pc[t] = "idle"
    /\ Calls < MaxCalls
    /\ overlap' = Overlaps(t)
    /\ pc' = [pc EXCEPT ![t] = "probe"]
    /\ probe' = [probe EXCEPT ![t] = target]
    /\ UNCHANGED <<child, lock, held, nspawn, kills, hist>>
    /\ UNCHANGED procVars
    /\ UNCHANGED monVars

\* StatusCode::is_success
IsSuccessAny(status) == TRUE
IsSuccess(status) == 200 <= status /\ status <= 299

\* the get completes: Ok(response) => Ok(response.status().is_success()),
\* Err(e) => Ok(false). No timeout is set on the request: while the endpoint
\* neither answers nor drops the connection the await does not complete.
CheckReturn(t) ==
    /\ pc[t] = "probe"
    /\ probe[t].kind \in {"refused", "status"}
    /\ Return(t, "check",
              IF probe[t].kind = "status"
              THEN OkBool(IsSuccess(probe[t].status))
              ELSE OkBool(FALSE),
              probe[t].status)
    /\ UNCHANGED <<child, lock, nspawn, kills, overlap>>
    /\ UNCHANGED procVars
    /\ UNCHANGED monVars

Next ==
    \/ \E t \in Threads : StartCheck(t)
    \/ \E t \in Threads : StartSpawn(t)
    \/ \E t \in Threads : StartStore(t)
    \/ \E t \in Threads : StartMonitor(t)
    \/ \E t \in Threads : StopTake(t)
    \/ \E t \in Threads : StopKill(t)
    \/ \E c \in Children : ChildExit(c)
    \/ \E c \in Children : ChildGone(c)
    \/ \E c \in Children : ChildClose(c)
    \/ \E c \in Children, line \in StdoutLines : MonitorStdout(c, line)
    \/ \E c \in Children, line \in StderrLines : MonitorStderr(c, line)
    \/ \E c \in Children : MonitorTerminated(c)
    \/ \E c \in Children : MonitorOther(c)
    \/ \E c \in Children : MonitorClosed(c)

Spec == Init /\ [][Next]_vars

\* The supervisor commands together with check_server_status. The health
\* check shares no state with the children and the monitors, whose steps are
\* left out here; a pending request completes when the endpoint lets it.
Command ==
    \/ \E t \in Threads : StartCheck(t)
    \/ \E t \in Threads : StartSpawn(t)
    \/ \E t \in Threads : StartStore(t)
    \/ \E t \in Threads : StartMonitor(t)
    \/ \E t \in Threads : StopTake(t)
    \/ \E t \in Threads : StopKill(t)
    \/ \E t \in Threads, target \in Targets : CheckSend(t, target)
    \/ \E t \in Threads : CheckReturn(t)

HealthSpec ==
    Init /\ [][Command]_vars /\ \A t \in Threads : WF_vars(CheckReturn(t))

\* ===================================================== properties
Idx == 1..Len(hist)
AllIdle == \A t \in Threads : pc[t] = "idle"
\* no stop has been invoked
NoStop ==
    /\ \A i \in Idx : hist[i].op # "stop"
    /\ \A t \in Threads : pc[t] # "stop_kill"
\* the emit calls of one session, by tag
Emitted(c, tag) == {i \in 1..Len(notes[c]) : notes[c][i].tag = tag}
\* the handles some start has stored in the Registry
Stored(c) ==
    \/ \E t \in Threads : pc[t] = "start_monitor" /\ held[t] = c
    \/ \E i \in Idx : hist[i].res = MsgStarting /\ hist[i].c = c

\* C1: with no stop invoked, however the start calls interleave, at most one
\* child is spawned and every handle a start has stored is the one the
\* Registry still holds.
C1_StartIsOneCriticalSection ==
    NoStop =>
        /\ nspawn <= 1
        /\ \A c \in Children : Stored(c) => child = c

\* C2: start calls that do not overlap, with no stop invoked: one spawn and one
\* monitor at most, and every start after a successful one answers "already
\* running" and leaves the stored handle in the Registry.
C2_SecondStartAlreadyRunning ==
    (~overlap /\ NoStop) =>
        /\ nspawn <= 1
        /\ Cardinality({c \in Children : mon[c] # "none"}) <= 1
        /\ \A i, j \in Idx :
              (i < j /\ hist[i].res = MsgStarting /\ hist[j].op = "start") =>
                  /\ hist[j].res = MsgAlreadyRunning
                  /\ hist[j].c = None
                  /\ child = hist[i].c

C2_Witness ==
    /\ ~overlap
    /\ NoStop
    /\ Len(hist) >= 2
    /\ hist[1].res = MsgStarting
    /\ hist[2].res = MsgAlreadyRunning
    /\ nspawn = 1

\* C3: once the monitor of a child has processed its Termination event, the
\* Registry does not hold the handle of that child.
C3_ClearedOnTermination ==
    \A c \in Children : Emitted(c, TagTerminated) # {} => child # c

\* C4: a failed emit does not abort the monitor: a session whose emit failed
\* is still running or has ended by itself.
C4_EmitFailureKeepsMonitor ==
    \A c \in Children :
        (\E i \in 1..Len(notes[c]) : ~notes[c][i].ok) =>
            mon[c] \in {"running", "ended"}

\* C5: no thread holds the Registry lock while its spawn or its kill request
\* is in progress.
C5_NoLockAcrossSpawnOrKill ==
    \A t \in Threads : pc[t] \in {"start_spawn", "stop_kill"} => lock # t

\* what a stop that follows a successful start does, calls not overlapping:
\* one kill request on that child, a result among `results`, Registry
\* empty when it returns, and a repeated stop answers "was not running"
StopAfterStart(results) ==
    ~overlap =>
        \A i \in Idx :
            (i < Len(hist) /\ hist[i].res = MsgStarting
                /\ hist[i + 1].op = "stop") =>
                /\ hist[i + 1].res \in results
                /\ hist[i + 1].c = hist[i].c
                /\ kills[hist[i].c] = 1
                /\ (Len(hist) = i + 1 /\ AllIdle) => child = None
                /\ (i + 2 <= Len(hist) /\ hist[i + 2].op = "stop") =>
                      /\ hist[i + 2].res = MsgNotRunning
                      /\ hist[i + 2].c = None

\* C6 as stated: the stop after a successful start returns "stopped".
C6_StopReturnsStopped == StopAfterStart({MsgStopped})

\* C6 amended: the stop after a successful start issues exactly one kill
\* request on that child and returns "stopped", or an Error when the kill
\* request fails; the Registry is empty and a repeated stop answers
\* "was not running" with no further kill request.
C6_StopKillsOnce == StopAfterStart({MsgStopped, ErrKill})

C6_Witness ==
    /\ ~overlap
    /\ Len(hist) = 3
    /\ hist[1].res = MsgStarting
    /\ hist[2].res = MsgStopped
    /\ hist[3].res = MsgNotRunning
    /\ kills[hist[1].c] = 1

\* C7: a stop that finds no handle returns "was not running" (not an error)
\* and issues no kill request: the kill requests are those of the stops that
\* took a handle, none at all while nothing was spawned, and the Registry is
\* empty when such a stop was the last call to return.
C7_StopOnEmptyRegistry ==
    /\ \A i \in Idx :
          (hist[i].op = "stop" /\ hist[i].c = None) =>
              hist[i].res = MsgNotRunning
    /\ \A c \in Children :
          kills[c] = Cardinality({i \in Idx : hist[i].op = "stop" /\ hist[i].c = c})
    /\ nspawn = 0 =>
          \A i \in Idx : hist[i].op = "stop" => hist[i].res = MsgNotRunning
    /\ (AllIdle /\ hist # <<>> /\ hist[Len(hist)].op = "stop") => child = None

C7_Witness ==
    /\ nspawn = 0
    /\ Len(hist) >= 2
    /\ hist[1].res = MsgNotRunning
    /\ hist[2].res = MsgNotRunning
    /\ child = None

\* C8: in one session server-ready is emitted at most once, exactly when the
\* first stdout line with a readiness substring has been received, however
\* many such lines follow; the latch is set from then on.
C8_ReadyOncePerSession ==
    \A c \in Children :
        /\ Cardinality(Emitted(c, TagReady)) <= 1
        /\ (matched[c] >= 1) <=> (Emitted(c, TagReady) # {})
        /\ (matched[c] >= 1) <=> server_ready[c]

C8_Witness ==
    \E c \in Children :
        /\ matched[c] >= 2
        /\ Cardinality(Emitted(c, TagReady)) = 1
        /\ mon[c] = "running"

\* C9: a monitor that has received the Termination event has emitted exactly
\* one server-terminated, carrying the exit code, as its last notification,
\* and is over.
C9_TerminatedOnceThenEnds ==
    \A c \in Children :
        /\ Cardinality(Emitted(c, TagTerminated)) <= 1
        /\ Emitted(c, TagTerminated) # {} =>
              /\ notes[c][Len(notes[c])].tag = TagTerminated
              /\ exited[c] = <<notes[c][Len(notes[c])].payload>>
              /\ mon[c] \in {"ended", "panicked"}
              /\ rx[c] = <<>>
        /\ (exited[c] # <<>> /\ rx[c] = <<>> /\ mon[c] \in {"running", "ended"}) =>
              Emitted(c, TagTerminated) # {}

C9_Witness ==
    \E c \in Children :
        /\ server_ready[c]
        /\ exited[c] = <<0>>
        /\ Len(notes[c]) = 2
        /\ notes[c][2] = Note(TagTerminated, 0, TRUE)
        /\ mon[c] = "ended"
        /\ ~closed[c]

\* C10: a start whose spawn fails returns the Error, stores no handle,
\* launches no monitor and emits nothing; with calls that do not overlap the
\* Registry is empty when it returns and the next start spawns again.
C10_SpawnFailureLeavesNothing ==
    /\ \A i \in Idx :
          (hist[i].op = "start" /\ hist[i].c = None) =>
              hist[i].res \in {ErrSpawn, MsgAlreadyRunning}
    /\ Cardinality({c \in Children : mon[c] # "none"})
          = Cardinality({i \in Idx : hist[i].res = MsgStarting})
    /\ \A c \in Children : mon[c] = "none" => notes[c] = <<>>
    /\ ~overlap =>
          /\ (AllIdle /\ hist # <<>> /\ hist[Len(hist)].res = ErrSpawn) =>
                child = None
          /\ \A i \in Idx :
                (i < Len(hist) /\ hist[i].res = ErrSpawn
                    /\ hist[i + 1].op = "start") =>
                    hist[i + 1].res \in {MsgStarting, ErrSpawn}

C10_Witness ==
    /\ ~overlap
    /\ Len(hist) >= 2
    /\ hist[1].res = ErrSpawn
    /\ hist[2].res = MsgStarting
    /\ child = hist[2].c

\* C11: a stop whose kill request fails returns the Error and the handle is
\* out of the Registry all the same: with calls that do not overlap, the
\* Registry is empty when it returns, the next stop answers "was not running"
\* and the next start goes on to spawn (a new child when the spawn succeeds).
C11_KillFailureReleasesHandle ==
    ~overlap =>
        \A i \in Idx :
            hist[i].res = ErrKill =>
                /\ hist[i].op = "stop"
                /\ kills[hist[i].c] = 1
                /\ (Len(hist) = i /\ AllIdle) => child = None
                /\ (i < Len(hist) /\ hist[i + 1].op = "stop") =>
                      /\ hist[i + 1].res = MsgNotRunning
                      /\ hist[i + 1].c = None
                /\ (i < Len(hist) /\ hist[i + 1].op = "start") =>
                      /\ hist[i + 1].res \in {MsgStarting, ErrSpawn}
                      /\ hist[i + 1].res = MsgStarting =>
                            hist[i + 1].c # hist[i].c

C11_Witness ==
    /\ ~overlap
    /\ Len(hist) = 3
    /\ hist[1].res = MsgStarting
    /\ hist[2].res = ErrKill
    /\ hist[3].res = MsgStarting
    /\ hist[3].c # hist[1].c
    /\ alive[hist[1].c]
    /\ child = hist[3].c


\* ---------------------------------------------------------------- C12
\* C12: every call of check_server_status eventually returns, also when the
\* endpoint accepts the connection and never answers.
C12_CheckAlwaysReturns ==
    \A t \in Threads : (pc[t] = "probe") ~> (pc[t] = "idle")

\* ---------------------------------------------------------------- C13
CheckCalls == {i \in Idx : hist[i].op = "check"}

CheckStep == \E t \in Threads : pc[t] = "probe" /\ pc'[t] = "idle"

\* C13: check_server_status never returns an Error; it answers true exactly
\* when the endpoint answered with a 2xx status and false otherwise, and it
\* neither reads nor changes the Registry.
C13_CheckResult ==
    /\ [](\A i \in CheckCalls :
            /\ hist[i].res \in {"Ok(true)", "Ok(false)"}
            /\ hist[i].res = "Ok(true)" <=> hist[i].c \in 200..299)
    /\ [][CheckStep => child' = child /\ lock' = lock]_vars

C13_Witness ==
    /\ child # None
    /\ \E i \in CheckCalls : hist[i].res = "Ok(true)"
    /\ \E i \in CheckCalls : hist[i].res = "Ok(false)" /\ hist[i].c = 404


\* ---------------------------------------------------------------- C14
\* C14: start does not wait for readiness. A start that has spawned a child
\* stores the handle before its monitor exists, so the monitor has processed
\* no event before the store; once the handle is stored the start can launch
\* the monitor and return whatever the child has or has not printed; every
\* start that answered "starting" has stored its handle and launched the
\* monitor of that child.
C14_StartDoesNotWait ==
    /\ \A t \in Threads :
          pc[t] \in {"start_store", "start_monitor"} =>
              /\ mon[held[t]] = "none"
              /\ notes[held[t]] = <<>>
              /\ matched[held[t]] = 0
    /\ \A t \in Threads : pc[t] = "start_monitor" => ENABLED StartMonitor(t)
    /\ \A i \in Idx :
          hist[i].res = MsgStarting =>
              /\ hist[i].c \in 1..nspawn
              /\ mon[hist[i].c] # "none"

\* a start has returned "starting" and its handle is in the Registry while
\* the child has produced no event at all
C14_Witness ==
    /\ nev = 0
    /\ \E i \in Idx :
          /\ hist[i].res = MsgStarting
          /\ child = hist[i].c
          /\ mon[hist[i].c] = "running"
          /\ ~server_ready[hist[i].c]
          /\ notes[hist[i].c] = <<>>


\* ---------------------------------------------------------------- C15
\* the children some stop has killed successfully
Killed == {hist[i].c : i \in {j \in Idx : hist[j].res = MsgStopped}}

C16_EndedSessionHasNotified ==
    \A c \in Children :
        mon[c] = "ended" => Cardinality(Emitted(c, TagTerminated)) = 1


\* ---------------------------------------------------------------- C17
\* the monitor of c handles a stderr line or an event of no known kind
IgnoredEvent(c) ==
    \/ \E line \in StderrLines : MonitorStderr(c, line)
    \/ MonitorOther(c)

\* C17: a stderr line, also one whose text contains a readiness substring,
\* or an event of an unrecognized kind changes no latch, emits nothing,
\* leaves the Registry as it is and leaves the monitor running.
C17_StderrAndUnknownAreIgnored ==
    [][\A c \in Children :
          IgnoredEvent(c) =>
              /\ server_ready' = server_ready
              /\ notes' = notes
              /\ child' = child
              /\ lock' = lock
              /\ mon' = mon
              /\ mon'[c] = "running"]_vars

\* the only event so far is a stderr line "Listening on ..." of the one
\* child: its monitor is running, not ready and has emitted nothing
C17_Witness ==
    /\ errlog
    /\ nev = 1
    /\ nspawn = 1
    /\ child = 1
    /\ mon[1] = "running"
    /\ ~server_ready[1]
    /\ notes[1] = <<>>
    /\ \A line \in StderrLines : IsReadyLine(from_utf8_lossy(line))


\* ---------------------------------------------------------------- C18
\* the stops that took the handle of c out of the Registry
StopsOn(c) == {i \in Idx : hist[i].op = "stop" /\ hist[i].c = c}
Killing(c) == {t \in Threads : pc[t] = "stop_kill" /\ held[t] = c}

\* C18: however stop and start calls interleave, a child handle receives at
\* most one kill request, only a handle that a start stored is ever killed,
\* and of the stops that meet one tracked child one takes and kills it and
\* every other one answers "was not running" without a kill request.
C18_AtMostOneKillPerChild ==
    /\ \A c \in Children :
          /\ kills[c] + Cardinality(Killing(c)) <= 1
          /\ Cardinality(StopsOn(c)) = kills[c]
          /\ (kills[c] > 0 \/ Killing(c) # {}) => Stored(c)
    /\ \A i \in Idx :
          hist[i].op = "stop" =>
              IF hist[i].c = None
              THEN hist[i].res = MsgNotRunning
              ELSE hist[i].res \in {MsgStopped, ErrKill}

\* two stops ran while the start of child 1 was still in flight: the first
\* killed the child before its start returned, the second found nothing
C18_Witness ==
    /\ overlap
    /\ Len(hist) = 3
    /\ hist[1].op = "stop" /\ hist[1].c = 1
    /\ hist[2].op = "stop" /\ hist[2].res = MsgNotRunning
    /\ hist[3].res = MsgStarting /\ hist[3].c = 1
    /\ kills[1] = 1


\* ---------------------------------------------------------------- C19
\* the emit calls of all sessions 1..n with one tag
RECURSIVE CountNotes(_, _)
CountNotes(tag, n) ==
    IF n = 0 THEN 0 ELSE Cardinality(Emitted(n, tag)) + CountNotes(tag, n - 1)

\* C19: the latch belongs to one session. A session has its latch set exactly
\* when it has itself emitted server-ready; a session that has consumed a
\* matching stdout line has emitted its own server-ready as its first
\* notification, whatever earlier sessions did; and the server-ready and the
\* server-terminated notifications of all sessions together are each at most
\* as many as the successful spawns.
C19_LatchIsPerSession ==
    /\ \A c \in Children :
          /\ server_ready[c] <=> Emitted(c, TagReady) # {}
          /\ mon[c] = "none" => notes[c] = <<>>
          /\ matched[c] >= 1 =>
                /\ notes[c] # <<>>
                /\ notes[c][1].tag = TagReady
    /\ CountNotes(TagReady, MaxCalls) <= nspawn
    /\ CountNotes(TagTerminated, MaxCalls) <= nspawn

\* start, ready, stop, start again, ready again: both sessions have emitted
\* their own server-ready
C19_Witness ==
    /\ Len(hist) = 3
    /\ hist[1].res = MsgStarting /\ hist[1].c = 1
    /\ hist[2].res = MsgStopped /\ hist[2].c = 1
    /\ hist[3].res = MsgStarting /\ hist[3].c = 2
    /\ server_ready[1] /\ server_ready[2]
    /\ notes[1] = <<Note(TagReady, NoCode, TRUE)>>
    /\ notes[2] = <<Note(TagReady, NoCode, TRUE)>>


\* ---------------------------------------------------------------- C20
\* C20: within one session no server-ready follows a server-terminated: every
\* server-ready is emitted before any server-terminated of its session, and a
\* session that has emitted server-terminated takes no further event, so a
\* later stdout line with a readiness substring emits nothing.
C20_ReadyBeforeTerminated ==
    \A c \in Children :
        /\ \A i \in Emitted(c, TagReady) :
              \A j \in Emitted(c, TagTerminated) : i < j
        /\ Emitted(c, TagTerminated) # {} => mon[c] # "running"

\* a killed child whose session emitted server-ready, then server-terminated,
\* and whose stream is still open
C20_Witness ==
    \E c \in Killed :
        /\ notes[c] = <<Note(TagReady, NoCode, TRUE),
                        Note(TagTerminated, NoCode, TRUE)>>
        /\ mon[c] = "ended"
        /\ ~closed[c]

====
